---- MODULE Spec2Model ----
(***************************************************************************)
(* ZenReader: document ingestion and chapter segmentation.                 *)
(*                                                                         *)
(* A string is a sequence of characters; a character is a one-character    *)
(* string, and a character outside ASCII is written as its code point      *)
(* ("U+7B2C" is the character 第).  Offsets are zero-based as in the       *)
(* source: the character at offset i of t is t[i + 1].                     *)
(***************************************************************************)
EXTENDS Integers, Sequences, FiniteSets, TLC

(***************************************************************************)
(* Characters and character classes of the regular expressions.            *)
(***************************************************************************)
NL == "\n"

\* LineTerminator of the language: what ^ and $ look at under the m flag.
LineTerminators == {"\n", "\r", "U+2028", "U+2029"}

\* \s, and what String.prototype.trim removes.
WhiteSpace ==
  {" ", "\t", "\n", "\r", "\f", "U+000B", "U+00A0", "U+3000", "U+FEFF",
   "U+2028", "U+2029"}

\* [0-9] and \d
Digits == {"0", "1", "2", "3", "4", "5", "6", "7", "8", "9"}

\* [0-9零一二三四五六七八九十百千两]
CjkNumerals ==
  Digits \cup {"U+96F6", "U+4E00", "U+4E8C", "U+4E09", "U+56DB", "U+4E94",
               "U+516D", "U+4E03", "U+516B", "U+4E5D", "U+5341", "U+767E",
               "U+5343", "U+4E24"}

\* [章回节卷集部篇]
UnitChars ==
  {"U+7AE0", "U+56DE", "U+8282", "U+5377", "U+96C6", "U+90E8", "U+7BC7"}

\* [\dIVX] under the i flag
RomanChars == Digits \cup {"I", "V", "X", "i", "v", "x"}

\* 第
Di == "U+7B2C"

\* 序章|前言|引子|尾声|后记|正文|楔子
NamedMarkers ==
  << <<"U+5E8F", "U+7AE0">>, <<"U+524D", "U+8A00">>, <<"U+5F15", "U+5B50">>,
     <<"U+5C3E", "U+58F0">>, <<"U+540E", "U+8BB0">>, <<"U+6B63", "U+6587">>,
     <<"U+6954", "U+5B50">> >>

\* /[,，。？！“”!?"';]/
invalidTitleChars ==
  {",", "U+FF0C", "U+3002", "U+FF1F", "U+FF01", "U+201C", "U+201D", "!", "?",
   "\"", "'", ";"}

\* The words of the Latin markers, lower case.
WordChapter == <<"c", "h", "a", "p", "t", "e", "r">>
WordSection == <<"s", "e", "c", "t", "i", "o", "n">>
WordPart == <<"p", "a", "r", "t">>

\* String.prototype.toLowerCase on one character, and the i flag of a regular
\* expression: an ASCII letter stands for both of its cases.
LowerOf ==
  [c \in {"A", "B", "C", "D", "E", "F", "G", "H", "I", "J", "K", "L", "M",
          "N", "O", "P", "Q", "R", "S", "T", "U", "V", "W", "X", "Y", "Z"} |->
     CASE c = "A" -> "a" [] c = "B" -> "b" [] c = "C" -> "c" [] c = "D" -> "d"
       [] c = "E" -> "e" [] c = "F" -> "f" [] c = "G" -> "g" [] c = "H" -> "h"
       [] c = "I" -> "i" [] c = "J" -> "j" [] c = "K" -> "k" [] c = "L" -> "l"
       [] c = "M" -> "m" [] c = "N" -> "n" [] c = "O" -> "o" [] c = "P" -> "p"
       [] c = "Q" -> "q" [] c = "R" -> "r" [] c = "S" -> "s" [] c = "T" -> "t"
       [] c = "U" -> "u" [] c = "V" -> "v" [] c = "W" -> "w" [] c = "X" -> "x"
       [] c = "Y" -> "y" [] c = "Z" -> "z"]

Lower(c) == IF c \in DOMAIN LowerOf THEN LowerOf[c] ELSE c

(***************************************************************************)
(* String helpers (zero-based offsets, half-open ranges).                  *)
(***************************************************************************)
Min(a, b) == IF a < b THEN a ELSE b

\* String.prototype.substring(a, b) for 0 <= a <= b <= length
Substring(t, a, b) == SubSeq(t, a + 1, b)

\* String.prototype.indexOf: the first offset where sub occurs in s, or -1
IndexOf(s, sub) ==
  LET hits == {i \in 0..(Len(s) - Len(sub)) :
                 Substring(s, i, i + Len(sub)) = sub}
  IN  IF hits = {} THEN -1 ELSE CHOOSE i \in hits : \A j \in hits : i <= j

\* String.prototype.includes
Includes(s, sub) == IndexOf(s, sub) # -1

\* String.prototype.trim
Trim(s) ==
  LET inked == {i \in 1..Len(s) : s[i] \notin WhiteSpace}
  IN  IF inked = {} THEN <<>>
      ELSE SubSeq(s, CHOOSE i \in inked : \A j \in inked : i <= j,
                     CHOOSE i \in inked : \A j \in inked : j <= i)

\* The offset of the first character at or after i that is not in S, or the
\* length of t.
SkipWhile(t, i, S) ==
  CHOOSE j \in i..Len(t) :
    /\ \A k \in i..(j - 1) : t[k + 1] \in S
    /\ j = Len(t) \/ t[j + 1] \notin S

\* The offset of the first character at or after i that is in S, or the
\* length of t.
SkipUntil(t, i, S) ==
  CHOOSE j \in i..Len(t) :
    /\ \A k \in i..(j - 1) : t[k + 1] \notin S
    /\ j = Len(t) \/ t[j + 1] \in S

\* <<hi, hi - 1, ..., lo>>: the order in which a greedy quantifier gives back.
DownTo(hi, lo) == [k \in 1..(hi - lo + 1) |-> hi - k + 1]

\* Does the word w (lower case) occur at offset i of t, ignoring case?
WordAt(t, i, w) ==
  /\ i + Len(w) <= Len(t)
  /\ \A k \in 1..Len(w) : Lower(t[i + k]) = w[k]

\* Does the literal w occur at offset i of t?
LiteralAt(t, i, w) ==
  /\ i + Len(w) <= Len(t)
  /\ \A k \in 1..Len(w) : t[i + k] = w[k]

(***************************************************************************)
(* chapterRegex, flags g, i, m:                                            *)
(*   (?:^|\n)\s*((?:MARKER)(?:[^\n]{0,50}))(?:\n|$)                        *)
(* A backtracking matcher returns the first match in priority order, so    *)
(* each quantifier's choices are listed greedy-first.                      *)
(***************************************************************************)
\* The bound of [^\n]{0,50}
TitleTailMax == 50

\* 第\s*[0-9零一二三四五六七八九十百千两]+\s*[章回节卷集部篇] at offset q: the
\* offsets just after the marker.  Each \s* has one useful choice (all the
\* white space), because what follows it is never white space.
OrdinalEnds(t, q) ==
  IF q < Len(t) /\ t[q + 1] = Di
  THEN LET a == SkipWhile(t, q + 1, WhiteSpace)
           b == SkipWhile(t, a, CjkNumerals)
           unitAfter(n) ==
             LET c == SkipWhile(t, n, WhiteSpace)
             IN  c < Len(t) /\ t[c + 1] \in UnitChars
           ns == SelectSeq(DownTo(b, a + 1), unitAfter)
       IN  [k \in 1..Len(ns) |-> SkipWhile(t, ns[k], WhiteSpace) + 1]
  ELSE <<>>

\* Chapter\s*[\dIVX]+ | Section\s*[\d]+ | Part\s*[\d]+ at offset q, for the
\* word w and the numeral class C.
LatinEnds(t, q, w, C) ==
  IF WordAt(t, q, w)
  THEN LET a == SkipWhile(t, q + Len(w), WhiteSpace)
           b == SkipWhile(t, a, C)
       IN  DownTo(b, a + 1)
  ELSE <<>>

\* 序章|前言|引子|尾声|后记|正文|楔子 at offset q
NamedEnds(t, q) ==
  LET hit(k) == LiteralAt(t, q, NamedMarkers[k])
      ks == SelectSeq([k \in 1..Len(NamedMarkers) |-> k], hit)
  IN  [k \in 1..Len(ks) |-> q + Len(NamedMarkers[ks[k]])]

\* [0-9]+\s*\.\s* at offset q.  The trailing \s* is followed by [^\n]{0,50},
\* which also takes white space, so every amount of white space is a choice.
RECURSIVE FlattenEnds(_)
FlattenEnds(ss) ==
  IF ss = <<>> THEN <<>> ELSE Head(ss) \o FlattenEnds(Tail(ss))

NumberedEnds(t, q) ==
  LET b == SkipWhile(t, q, Digits)
      dotAfter(n) ==
        LET c == SkipWhile(t, n, WhiteSpace)
        IN  c < Len(t) /\ t[c + 1] = "."
      ns == SelectSeq(DownTo(b, q + 1), dotAfter)
  IN  FlattenEnds([k \in 1..Len(ns) |->
        LET d == SkipWhile(t, ns[k], WhiteSpace) + 1
        IN  DownTo(SkipWhile(t, d, WhiteSpace), d)])

\* The alternatives of MARKER in the order of the source.
MarkerEnds(t, q) ==
  OrdinalEnds(t, q) \o LatinEnds(t, q, WordChapter, RomanChars)
    \o LatinEnds(t, q, WordSection, Digits)
    \o LatinEnds(t, q, WordPart, Digits)
    \o NamedEnds(t, q) \o NumberedEnds(t, q)

\* (?:[^\n]{0,50}) from offset m, then (?:\n|$): the offset where group 1
\* ends, or -1.  Greedy: the longest run of at most 50 characters that ends
\* before a line break or (the m flag) before any line terminator or at the
\* end of the text.
TitleEnd(t, m) ==
  LET stop == Min(SkipUntil(t, m, {NL}), m + TitleTailMax)
      ends == {e \in m..stop : e = Len(t) \/ t[e + 1] \in LineTerminators}
  IN  IF ends = {} THEN -1 ELSE CHOOSE e \in ends : \A f \in ends : f <= e

NoMatch == [found |-> FALSE]

\* One attempt of chapterRegex at start offset p.  (?:^|\n): p is the start
\* of a line, or the character at p is a line break; the \s* that follows
\* takes the line break too, so both choices reach the same offset q.
MatchAt(t, p) ==
  LET startOk == \/ p = 0
                 \/ t[p] \in LineTerminators
                 \/ t[p + 1] = NL
      q == SkipWhile(t, p, WhiteSpace)
      titled(m) == TitleEnd(t, m) # -1
      ms == SelectSeq(MarkerEnds(t, q), titled)
  IN  IF startOk /\ ms # <<>>
      THEN LET e == TitleEnd(t, ms[1])
           IN  [found |-> TRUE,
                index |-> p,                      \* match.index
                all |-> Substring(t, p,           \* match[0]
                          IF e < Len(t) /\ t[e + 1] = NL THEN e + 1 ELSE e),
                group1 |-> Substring(t, q, e),    \* match[1]
                lastIndex |-> IF e < Len(t) /\ t[e + 1] = NL THEN e + 1 ELSE e]
      ELSE NoMatch

\* chapterRegex.exec(text) with the regex's lastIndex: the leftmost match
\* starting at or after lastIndex.
exec(t, lastIndex) ==
  LET starts == lastIndex..(Len(t) - 1)
  IN  IF \E p \in starts : MatchAt(t, p).found
      THEN MatchAt(t, CHOOSE p \in starts :
                        /\ \A r \in lastIndex..(p - 1) : ~ MatchAt(t, r).found
                        /\ MatchAt(t, p).found)
      ELSE NoMatch

(***************************************************************************)
(* parseTxtContentOptimized                                                *)
(***************************************************************************)
\* titleLine.length > 50
TitleMax == 50

\* points.length % 100 === 0
YieldEvery == 100

\* points[0].startIndex > 50
PrologueThreshold == 50

\* 开始
TitleStart == <<"U+5F00", "U+59CB">>

\* 全文
TitleFullText == <<"U+5168", "U+6587">>

\* titleAccepted without the punctuation test.
titleAccepted_lengthOnly(titleLine) ==
  ~ (Len(titleLine) > TitleMax \/ Len(titleLine) = 0)

\* titleAccepted without the length test.
titleAccepted_punctuationOnly(titleLine) ==
  ~ \E k \in 1..Len(titleLine) : titleLine[k] \in invalidTitleChars

\* Strict Filtering: the two `continue` tests on the trimmed title.
titleAccepted(titleLine) ==
  /\ ~ \E k \in 1..Len(titleLine) : titleLine[k] \in invalidTitleChars
  /\ ~ (Len(titleLine) > TitleMax \/ Len(titleLine) = 0)

\* match.index + rawMatch.indexOf(match[1])
startIndexOf(match) == match.index + IndexOf(match.all, match.group1)

\* `chap-${n}`
ChapId(n) == "chap-" \o ToString(n)

\* hasPrologue with the threshold test off by one.
hasPrologue_offByOne(points) ==
  Len(points) > 0 /\ points[1].startIndex > PrologueThreshold + 1

\* Handle Prologue: is a chapter made of the text before the first point?
hasPrologue(points) ==
  Len(points) > 0 /\ points[1].startIndex > PrologueThreshold

\* prologueChapter ending at the threshold instead of at the first point.
prologueChapter_toThreshold(points) ==
  [id |-> "chap-pre", title |-> TitleStart, index |-> 0,
   startStringIndex |-> 0, endStringIndex |-> PrologueThreshold]

prologueChapter(points) ==
  [id |-> "chap-pre", title |-> TitleStart, index |-> 0,
   startStringIndex |-> 0, endStringIndex |-> points[1].startIndex]

\* fullTextChapter ending at the last character instead of after it.
fullTextChapter_shortByOne(t) ==
  [id |-> ChapId(0), title |-> TitleFullText, index |-> 0,
   startStringIndex |-> 0, endStringIndex |-> Len(t) - 1]

\* No chapters found at all
fullTextChapter(t) ==
  [id |-> ChapId(0), title |-> TitleFullText, index |-> 0,
   startStringIndex |-> 0, endStringIndex |-> Len(t)]

\* endOfPoint reading the current point instead of the next one.
endOfPoint_current(t, points, i) ==
  IF i < Len(points) THEN points[i].startIndex ELSE Len(t)

\* nextPoint ? nextPoint.startIndex : text.length, for the i-th point (from 1)
endOfPoint(t, points, i) ==
  IF i < Len(points) THEN points[i + 1].startIndex ELSE Len(t)

\* Process identified points, chapterCounter starting at first.
pointChapters(t, points, first) ==
  [i \in 1..Len(points) |->
     [id |-> ChapId(first + i - 1), title |-> points[i].title,
      index |-> first + i - 1,
      startStringIndex |-> points[i].startIndex,
      endStringIndex |-> endOfPoint(t, points, i)]]

\* PASS 2: Construct Chapters from Points
buildChapters(t, points) ==
  IF hasPrologue(points)
  THEN <<prologueChapter(points)>> \o pointChapters(t, points, 1)
  ELSE IF Len(points) = 0
  THEN <<fullTextChapter(t)>>
  ELSE pointChapters(t, points, 0)

(***************************************************************************)
(* More string helpers.                                                    *)
(***************************************************************************)
None == [some |-> FALSE]
Some(v) == [some |-> TRUE, value |-> v]

\* String.prototype.toLowerCase
ToLowerCase(s) == [k \in 1..Len(s) |-> Lower(s[k])]

\* String.prototype.replace(sub, rep) with a string pattern: the first
\* occurrence only.
Replace(s, sub, rep) ==
  LET i == IndexOf(s, sub)
  IN  IF i = -1 THEN s
      ELSE Substring(s, 0, i) \o rep \o Substring(s, i + Len(sub), Len(s))

\* String.prototype.split('\n'): the pieces between the line breaks, one
\* more than there are line breaks.
SplitLines(s) ==
  LET breaks == {i \in 0..(Len(s) - 1) : s[i + 1] = NL}
      \* the offset of the k-th line break; -1 and Len(s) fence the ends
      break(k) ==
        IF k = 0 THEN -1
        ELSE IF k > Cardinality(breaks) THEN Len(s)
        ELSE CHOOSE i \in breaks :
               Cardinality({j \in breaks : j < i}) = k - 1
  IN  [k \in 1..(Cardinality(breaks) + 1) |->
         Substring(s, break(k - 1) + 1, break(k))]

\* Array.prototype.join(''), joining the two halves of the array.
RECURSIVE JoinAll(_)
JoinAll(ss) ==
  IF ss = <<>> THEN <<>>
  ELSE IF Len(ss) = 1 THEN ss[1]
  ELSE JoinAll(SubSeq(ss, 1, Len(ss) \div 2))
         \o JoinAll(SubSeq(ss, (Len(ss) \div 2) + 1, Len(ss)))

\* The decimal digits of n >= 0, as `${n}` writes them.
RECURSIVE NumberString(_)
NumberString(n) ==
  LET d == <<"0", "1", "2", "3", "4", "5", "6", "7", "8", "9">>[(n % 10) + 1]
  IN  IF n < 10 THEN <<d>> ELSE Append(NumberString(n \div 10), d)

\* file.name.split('.').pop()?.toLowerCase()
extensionOf(name) ==
  LET dots == {i \in 1..Len(name) : name[i] = "."}
      last == IF dots = {} THEN 0 ELSE CHOOSE i \in dots : \A j \in dots : j <= i
  IN  ToLowerCase(SubSeq(name, last + 1, Len(name)))

ExtTxt == <<"t", "x", "t">>
ExtDocx == <<"d", "o", "c", "x">>
ExtEpub == <<"e", "p", "u", "b">>

(***************************************************************************)
(* The documents.                                                          *)
(***************************************************************************)
\* The longest enumerated text and the longest enumerated spine.
MaxLen == 4
MaxSpine == 2

Alphabet == {NL, " ", "1", ".", ",", Di, "U+7AE0"}

RECURSIVE StringsUpTo(_, _)
StringsUpTo(A, n) ==
  IF n = 0 THEN {<<>>}
  ELSE LET S == StringsUpTo(A, n - 1)
       IN  S \cup {Append(u, c) : u \in {v \in S : Len(v) = n - 1}, c \in A}

SmallTexts == StringsUpTo(Alphabet, MaxLen)

\* Unmarked prose of n characters.
Prose(n) == [k \in 1..n |-> "x"]

\* Texts whose first line is prose that ends just before or at the prologue
\* threshold.
PaddedTexts ==
  {Prose(n) \o u : n \in {PrologueThreshold - 1, PrologueThreshold},
                   u \in SmallTexts}

\* Texts with enough headings for the scan to yield.
Headings(n) ==
  [i \in 1..(4 * n) |->
     CASE i % 4 = 1 -> Di
       [] i % 4 = 2 -> NumberString(((i + 2) \div 4) % 10)[1]
       [] i % 4 = 3 -> "U+7AE0"
       [] OTHER -> NL]

LongTexts == {Headings(YieldEvery), Headings(YieldEvery + 1)}

\* The three end-to-end scenarios:
\*   "第一章 开端\n内容A\n第二章 发展\n内容B";
\*   79 characters of prose and a line break before "Chapter 1", so that the
\*   marker is at offset 80, then a second chapter;
\*   "第1章，真的吗？".
ScenarioA ==
  <<Di, "U+4E00", "U+7AE0", " ", "U+5F00", "U+7AEF", NL,
    "U+5185", "U+5BB9", "A", NL,
    Di, "U+4E8C", "U+7AE0", " ", "U+53D1", "U+5C55", NL,
    "U+5185", "U+5BB9", "B">>

ScenarioB ==
  Prose(79) \o <<NL, "C", "h", "a", "p", "t", "e", "r", " ", "1", NL, "x", NL,
                 "C", "h", "a", "p", "t", "e", "r", " ", "2", NL, "x">>

ScenarioC == <<Di, "1", "U+7AE0", "U+FF0C", "U+771F", "U+7684", "U+5417", "U+FF1F">>

ScenarioTexts == {ScenarioA, ScenarioB, ScenarioC}

\* One numbered line whose title is as long as the filter allows, one
\* character longer, and too long for the regex to match.
TitledTexts ==
  {<<"1", ".">> \o Prose(n) :
     n \in {TitleMax - 2, TitleMax - 1, TitleTailMax + 1}}

Texts ==
  SmallTexts \cup PaddedTexts \cup LongTexts \cup ScenarioTexts
    \cup TitledTexts

\* What a converter hands back for one block: markup.
Htmls == {<<>>, <<"h">>}

\* What item.load gives for a spine item: a document with a body, a string,
\* something else, or an error; and whether the table of contents names it.
SpineItems ==
  {[doc |-> d, html |-> h, inToc |-> b] :
     d \in {"body", "string"}, h \in Htmls, b \in BOOLEAN}
  \cup {[doc |-> d, html |-> <<>>, inToc |-> b] :
     d \in {"other", "error"}, b \in BOOLEAN}

Spines == StringsUpTo(SpineItems, MaxSpine)

NameTxt == <<"a", ".", "t", "x", "t">>
NameTxtUpper == <<"A", ".", "T", "X", "T">>
NameDocx == <<"a", ".", "d", "o", "c", "x">>
NameEpub == <<"a", ".", "e", "p", "u", "b">>
NamePdf == <<"a", ".", "p", "d", "f">>
NameNoDot == <<"a">>

\* The characters this model writes that are ASCII: every encoding the
\* decoder supports here decodes their bytes to themselves.
Ascii ==
  Digits \cup RomanChars \cup DOMAIN LowerOf \cup {LowerOf[c] : c \in DOMAIN LowerOf}
    \cup {NL, "\r", "\t", "\f", " ", ".", ",", "!", "?", "\"", "'", ";",
          "<", ">", "/"}

IsAscii(t) == \A k \in 1..Len(t) : t[k] \in Ascii

\* What jschardet.detect answers for a text in UTF-8.
DetectedUtf8(t) == IF IsAscii(t) THEN Some("ascii") ELSE Some("UTF-8")

\* A document: its name; for a plain-text one the characters it holds, the
\* encoding its bytes are in and the label jschardet.detect answers for its
\* prefix (None: no encoding); for a docx the markup mammoth gives; for an
\* epub its spine and the title of its metadata; whether reading the prefix
\* and reading the whole file succeed, and whether the converter fails on
\* the bytes.
File(name, text, html, spine, metaTitle) ==
  [name |-> name, text |-> text, html |-> html, spine |-> spine,
   metaTitle |-> metaTitle, charset |-> "utf-8",
   detected |-> DetectedUtf8(text), prefixReads |-> TRUE, fullReads |-> TRUE,
   corrupt |-> FALSE]

Files ==
  {File(NameTxt, t, <<>>, <<>>, <<>>) : t \in Texts}
  \cup {File(NameTxtUpper, t, <<>>, <<>>, <<>>) : t \in StringsUpTo(Alphabet, 1)}
  \cup {File(NameDocx, <<>>, h, <<>>, <<>>) : h \in Htmls}
  \cup {File(NameEpub, <<>>, <<>>, sp, m) : sp \in Spines, m \in {<<>>, <<"M">>}}
  \cup {File(NamePdf, <<>>, <<>>, <<>>, <<>>)}
  \cup {File(NameNoDot, <<>>, <<>>, <<>>, <<>>)}

\* The globals the page may or may not have loaded.
Window(j, m, e) == [jschardet |-> j, mammoth |-> m, ePub |-> e]
AllLoaded == Window(TRUE, TRUE, TRUE)
Windows == {Window(j, m, e) : j \in BOOLEAN, m \in BOOLEAN, e \in BOOLEAN}

\* Plain-text documents with what jschardet.detect answers for them: no
\* encoding for the empty file, "ascii" for an ASCII one, and for a heading
\* in Chinese nothing, the right label, a label TextDecoder does not know,
\* or a wrong label.
Sniffs ==
  {[text |-> <<>>, charset |-> "utf-8", detected |-> None],
   [text |-> <<"1", ".">>, charset |-> "utf-8", detected |-> Some("ascii")]}
  \cup {[text |-> <<Di, "1", "U+7AE0">>, charset |-> sn[1], detected |-> sn[2]] :
          sn \in {<<"utf-8", None>>, <<"utf-8", Some("UTF-8")>>,
                  <<"gbk", Some("GB2312")>>, <<"euc-tw", Some("EUC-TW")>>,
                  <<"gbk", Some("windows-1252")>>}}

SniffedFiles ==
  {[File(NameTxt, sn.text, <<>>, <<>>, <<>>) EXCEPT
      !.charset = sn.charset, !.detected = sn.detected,
      !.prefixReads = pr, !.fullReads = fr] :
     sn \in Sniffs, pr \in BOOLEAN, fr \in BOOLEAN}

\* Structured documents that may be unreadable or corrupt.
BodyItem == [doc |-> "body", html |-> <<"h">>, inToc |-> TRUE]

ConvertedFiles ==
  {[File(NameDocx, <<>>, h, <<>>, <<>>) EXCEPT
      !.fullReads = fr, !.corrupt = co] :
     h \in Htmls, fr \in BOOLEAN, co \in BOOLEAN}
  \cup {[File(NameEpub, <<>>, <<>>, sp, <<>>) EXCEPT
      !.fullReads = fr, !.corrupt = co] :
     sp \in {<<>>, <<BodyItem>>}, fr \in BOOLEAN, co \in BOOLEAN}

\* The calls of parseFile: every document with everything loaded, and the
\* documents above with every combination of loaded globals.
Cases ==
  {[file |-> f, window |-> AllLoaded] : f \in Files}
  \cup {[file |-> f, window |-> w] :
          f \in SniffedFiles \cup ConvertedFiles, w \in Windows}

(***************************************************************************)
(* detectEncoding and TextDecoder.                                         *)
(***************************************************************************)
DefaultEncoding == "utf-8"

\* What detectEncoding resolves with: detected.encoding || 'utf-8' when the
\* prefix was read and jschardet is loaded, 'utf-8' otherwise and when the
\* read of the prefix fails.  It has no rejecting path.
sniffedEncoding_noFallback(f, w) ==
  IF f.prefixReads /\ w.jschardet THEN f.detected ELSE Some(DefaultEncoding)

sniffedEncoding(f, w) ==
  IF f.prefixReads
  THEN IF w.jschardet
       THEN IF f.detected.some THEN f.detected ELSE Some(DefaultEncoding)
       ELSE Some(DefaultEncoding)
  ELSE Some(DefaultEncoding)

\* The encoding a label names for new TextDecoder(label), labels compared
\* without case; "failure" when there is none, and the constructor throws a
\* RangeError.
encodingOfLabel(label) ==
  CASE label \in {"utf-8", "UTF-8"} -> "utf-8"
    [] label \in {"gb2312", "GB2312"} -> "gbk"
    [] label \in {"ascii", "windows-1252"} -> "windows-1252"
    [] OTHER -> "failure"

\* decoder.decode(buffer), never fatal: the characters the document holds
\* when the decoder is the one of its bytes or the text is ASCII, and
\* otherwise the ASCII characters kept and the others garbled (written
\* U+FFFD here).
decode(enc, f) ==
  IF enc = f.charset \/ IsAscii(f.text) THEN f.text
  ELSE [k \in 1..Len(f.text) |->
          IF f.text[k] \in Ascii THEN f.text[k] ELSE "U+FFFD"]

\* The rejections of parseFile.
ErrRange == [name |-> "RangeError", accepted |-> {}]
ErrRead == [name |-> "ProgressEvent", accepted |-> {}]
ErrMammoth == [name |-> "Mammoth library not loaded.", accepted |-> {}]
ErrEpub == [name |-> "EPUB library not loaded.", accepted |-> {}]
ErrConvert == [name |-> "converter error", accepted |-> {}]
\* "不支持的文件格式。请使用 .txt, .docx, 或 .epub"
ErrUnsupported ==
  [name |-> "unsupported format",
   accepted |-> {<<".">> \o ExtTxt, <<".">> \o ExtDocx, <<".">> \o ExtEpub}]

(***************************************************************************)
(* State.  One call of parseFile, made by handleOpenFromLibrary, and the   *)
(* state of App; then the state of a batch import and of the bookshelf.    *)
(***************************************************************************)
VARIABLES
  file,                 \* the document handed to parseFile
  window,               \* which globals are loaded
  pc,                   \* where the call is: "start", "sniffed" (the encoding
                        \* is known), "scan" (in the loop of PASS 1), "yield"
                        \* (suspended in its yield), "epub" (in the spine
                        \* loop), "resolved", "rejected", "hung" (its promise
                        \* can no longer settle), and after the caller took
                        \* the outcome, "open" or "failed"
  encoding,             \* what detectEncoding resolved with
  text,                 \* the decoded text
  io,                   \* what was started on the file: "slice" (the read
                        \* of the prefix), "read", "convert"
  error,                \* what parseFile rejected with
  lastIndex,            \* chapterRegex.lastIndex
  points,               \* points of parseTxtContentOptimized
  spinePos,             \* the spine item the epub loop is at (from 1)
  index,                \* index of the epub loop
  chapters,             \* chapters of the epub loop
  data,                 \* what parseFile resolved with
  book,                 \* App state: the open book
  fullText,             \* App state: the retained full text
  currentChapterIndex,  \* App state
  loading,              \* App state
  library,              \* App state: the bookshelf, as book ids
  db,                   \* the books store of IndexedDB, by book id
  now,                  \* Date.now()
  fileList,             \* handleFileUpload: the files selected
  cursor,               \* handleFileUpload: the file the loop is at (from 1)
  stage,                \* handleFileUpload: "idle", "parse" and "save"
                        \* (awaiting parseFile, saveBookToDB), "next",
                        \* "refresh", "done"
  successCount,         \* handleFileUpload
  failList,             \* handleFileUpload
  inFlight,             \* the files whose parseFile or save has not settled
  started,              \* the files in the order their parseFile started
  requests              \* the calls of handleOpenFromLibrary in flight

parseVars ==
  <<encoding, text, io, error, lastIndex, points, spinePos, index, chapters>>
appVars == <<book, fullText, currentChapterIndex>>
importVars ==
  <<fileList, cursor, stage, successCount, failList, inFlight, started>>
hostVars == <<loading, library, db, now, importVars, requests>>
callVars == <<file, window, hostVars>>

vars == <<callVars, pc, parseVars, data, appVars>>

\* parseFile has not been called.
CallIdle ==
  /\ pc = "start"
  /\ encoding = None
  /\ text = <<>>
  /\ io = {}
  /\ error = None
  /\ lastIndex = 0
  /\ points = <<>>
  /\ spinePos = 1
  /\ index = 0
  /\ chapters = <<>>
  /\ data = None

\* No book is open and nothing is retained.
AppIdle ==
  /\ book = None
  /\ fullText = None
  /\ currentChapterIndex = 0

\* No import runs.
ImportIdle ==
  /\ fileList = <<>>
  /\ cursor = 1
  /\ stage = "idle"
  /\ successCount = 0
  /\ failList = <<>>
  /\ inFlight = {}
  /\ started = <<>>

\* The bookshelf is empty and nothing is being opened.
ShelfIdle ==
  /\ loading = FALSE
  /\ library = <<>>
  /\ db = [id \in {} |-> {}]
  /\ now = 1
  /\ requests = <<>>

Init ==
  /\ \E c \in Cases : file = c.file /\ window = c.window
  /\ CallIdle
  /\ AppIdle
  /\ ImportIdle
  /\ ShelfIdle

(***************************************************************************)
(* parseFile, plain text.                                                  *)
(***************************************************************************)
\* resolve({ title: file.name.replace('.txt', ''), chapters, fullText: text })
txtResult(f, t, pts) ==
  Some([title |-> Replace(f.name, <<".">> \o ExtTxt, <<>>),
        chapters |-> buildChapters(t, pts),
        fullText |-> Some(t)])

\* extension === 'txt': await detectEncoding(file), which reads the prefix.
detectEncoding ==
  /\ pc = "start"
  /\ extensionOf(file.name) = ExtTxt
  /\ pc' = "sniffed"
  /\ encoding' = sniffedEncoding(file, window)
  /\ io' = io \cup {"slice"}
  /\ UNCHANGED <<callVars, text, error, lastIndex, points, spinePos, index,
                 chapters, data, appVars>>

\* The whole file is read: reader.onerror rejects; in reader.onload
\* new TextDecoder(encoding) throws for a label it does not know, which the
\* catch turns into a rejection; else the text is decoded and
\* parseTxtContentOptimized starts PASS 1 with no points and the regex at
\* offset 0.
parseTxt ==
  /\ pc = "sniffed"
  /\ io' = io \cup {"read"}
  /\ IF ~ file.fullReads
     THEN /\ pc' = "rejected"
          /\ error' = Some(ErrRead)
          /\ UNCHANGED <<text, lastIndex, points>>
     ELSE IF encodingOfLabel(encoding.value) = "failure"
     THEN /\ pc' = "rejected"
          /\ error' = Some(ErrRange)
          /\ UNCHANGED <<text, lastIndex, points>>
     ELSE /\ pc' = "scan"
          /\ text' = decode(encodingOfLabel(encoding.value), file)
          /\ lastIndex' = 0
          /\ points' = <<>>
          /\ error' = error
  /\ UNCHANGED <<callVars, encoding, spinePos, index, chapters, data, appVars>>

\* One turn of the while loop of PASS 1: the next match is rejected by the
\* filter, or becomes a point (and every YieldEvery points the loop yields to
\* the UI thread); without a next match PASS 2 builds the chapters and
\* parseFile resolves.
scanTurn ==
  /\ pc = "scan"
  /\ LET match == exec(text, lastIndex)
         titleLine == Trim(match.group1)
         pushed == Append(points, [title |-> titleLine,
                                   startIndex |-> startIndexOf(match)])
     IN  IF ~ match.found
         THEN /\ pc' = "resolved"
              /\ data' = txtResult(file, text, points)
              /\ lastIndex' = 0
              /\ points' = points
         ELSE IF ~ titleAccepted(titleLine)
         THEN /\ lastIndex' = match.lastIndex
              /\ UNCHANGED <<pc, data, points>>
         ELSE /\ points' = pushed
              /\ lastIndex' = match.lastIndex
              /\ pc' = IF Len(pushed) % YieldEvery = 0 THEN "yield" ELSE "scan"
              /\ data' = data
  /\ UNCHANGED <<callVars, encoding, text, io, error, spinePos, index,
                 chapters, appVars>>

\* resumeScan losing the point pushed just before the yield.
resumeScan_dropsPoint ==
  /\ pc = "yield"
  /\ pc' = "scan"
  /\ points' = SubSeq(points, 1, Len(points) - 1)
  /\ UNCHANGED <<callVars, encoding, text, io, error, lastIndex, spinePos,
                 index, chapters, data, appVars>>

\* The timer of the yield fires: the loop goes on.
resumeScan ==
  /\ pc = "yield"
  /\ pc' = "scan"
  /\ UNCHANGED <<callVars, parseVars, data, appVars>>

(***************************************************************************)
(* parseFile, docx and epub.                                               *)
(***************************************************************************)
docxChapter(f) ==
  [id |-> ChapId(0), title |-> f.name, content |-> f.html, index |-> 0]

\* resolve({ title: file.name.replace('.docx', ''), chapters })
docxResult(f) ==
  Some([title |-> Replace(f.name, <<".">> \o ExtDocx, <<>>),
        chapters |-> <<docxChapter(f)>>,
        fullText |-> None])

\* parseDocx looking for window.mammoth only once the file is read.
parseDocx_readFirst ==
  /\ pc = "start"
  /\ extensionOf(file.name) = ExtDocx
  /\ io' = io \cup {"read"}
  /\ IF ~ file.fullReads
     THEN /\ pc' = "hung"
          /\ UNCHANGED <<error, data>>
     ELSE IF ~ window.mammoth
     THEN /\ pc' = "rejected"
          /\ error' = Some(ErrMammoth)
          /\ data' = data
     ELSE /\ pc' = "resolved"
          /\ data' = docxResult(file)
          /\ error' = error
  /\ UNCHANGED <<callVars, encoding, text, lastIndex, points, spinePos, index,
                 chapters, appVars>>

\* extension === 'docx': without window.mammoth the call throws before a
\* reader exists; else the file is read (no handler takes a failed read, so
\* the promise never settles) and mammoth converts: one chapter holds the
\* markup, or the conversion rejects.
parseDocx ==
  /\ pc = "start"
  /\ extensionOf(file.name) = ExtDocx
  /\ IF ~ window.mammoth
     THEN /\ pc' = "rejected"
          /\ error' = Some(ErrMammoth)
          /\ UNCHANGED <<io, data>>
     ELSE IF ~ file.fullReads
     THEN /\ pc' = "hung"
          /\ io' = io \cup {"read"}
          /\ UNCHANGED <<error, data>>
     ELSE IF file.corrupt
     THEN /\ pc' = "rejected"
          /\ io' = io \cup {"read", "convert"}
          /\ error' = Some(ErrConvert)
          /\ data' = data
     ELSE /\ pc' = "resolved"
          /\ io' = io \cup {"read", "convert"}
          /\ data' = docxResult(file)
          /\ error' = error
  /\ UNCHANGED <<callVars, encoding, text, lastIndex, points, spinePos, index,
                 chapters, appVars>>

\* book.package.metadata.title || file.name
epubResult(f, chs) ==
  Some([title |-> IF f.metaTitle # <<>> THEN f.metaTitle ELSE f.name,
        chapters |-> chs,
        fullText |-> None])

\* extension === 'epub': without window.ePub the call throws before a reader
\* exists; else the file is read (a failed read settles nothing), the book
\* is made ready (or that rejects) and its navigation loaded; the loop over
\* the spine starts, or there is nothing to loop over.
parseEpub ==
  /\ pc = "start"
  /\ extensionOf(file.name) = ExtEpub
  /\ IF ~ window.ePub
     THEN /\ pc' = "rejected"
          /\ error' = Some(ErrEpub)
          /\ UNCHANGED <<io, data>>
     ELSE IF ~ file.fullReads
     THEN /\ pc' = "hung"
          /\ io' = io \cup {"read"}
          /\ UNCHANGED <<error, data>>
     ELSE IF file.corrupt
     THEN /\ pc' = "rejected"
          /\ io' = io \cup {"read", "convert"}
          /\ error' = Some(ErrConvert)
          /\ data' = data
     ELSE /\ io' = io \cup {"read", "convert"}
          /\ error' = error
          /\ IF file.spine = <<>>
             THEN pc' = "resolved" /\ data' = epubResult(file, <<>>)
             ELSE pc' = "epub" /\ data' = data
  /\ UNCHANGED <<callVars, encoding, text, lastIndex, points, spinePos, index,
                 chapters, appVars>>

\* content of a loaded spine item
spineContent(item) ==
  IF item.doc = "body" THEN item.html          \* doc.body.innerHTML
  ELSE IF item.doc = "string" THEN item.html   \* doc
  ELSE <<>>                                    \* let content = ""

\* tocItem ? tocItem.label : `第 ${index + 1} 章`
spineTitle(item, i) ==
  IF item.inToc THEN <<"T">>
  ELSE <<Di, " ">> \o NumberString(i + 1) \o <<" ", "U+7AE0">>

\* spineChapter leaving content out when the loaded document gave none.
spineChapter_contentIfFound(item, i) ==
  IF item.doc \in {"body", "string"}
  THEN [id |-> ChapId(i), title |-> spineTitle(item, i),
        content |-> spineContent(item), index |-> i]
  ELSE [id |-> ChapId(i), title |-> spineTitle(item, i), index |-> i]

\* spineChapter numbered by the position in the spine instead of by index.
spineChapter_bySpinePosition(item, i) ==
  [id |-> ChapId(spinePos - 1), title |-> spineTitle(item, spinePos - 1),
   content |-> spineContent(item), index |-> spinePos - 1]

spineChapter(item, i) ==
  [id |-> ChapId(i), title |-> spineTitle(item, i),
   content |-> spineContent(item), index |-> i]

\* loadSpineItem without the try around the load: a failed load rejects.
loadSpineItem_failFast ==
  /\ pc = "epub"
  /\ LET item == file.spine[spinePos]
         loaded == item.doc # "error"
         chs == IF loaded THEN Append(chapters, spineChapter(item, index))
                ELSE chapters
     IN  /\ chapters' = chs
         /\ index' = IF loaded THEN index + 1 ELSE index
         /\ spinePos' = spinePos + 1
         /\ error' = IF loaded THEN error ELSE Some(ErrConvert)
         /\ IF ~ loaded
            THEN pc' = "rejected" /\ data' = data
            ELSE IF spinePos = Len(file.spine)
            THEN pc' = "resolved" /\ data' = epubResult(file, chs)
            ELSE pc' = "epub" /\ data' = data
  /\ UNCHANGED <<callVars, encoding, text, io, lastIndex, points, appVars>>

\* One turn of the loop over spine.items: the item loads and becomes a
\* chapter, or its load fails and it is skipped; after the last item the
\* call resolves.
loadSpineItem ==
  /\ pc = "epub"
  /\ LET item == file.spine[spinePos]
         loaded == item.doc # "error"
         chs == IF loaded THEN Append(chapters, spineChapter(item, index))
                ELSE chapters
     IN  /\ chapters' = chs
         /\ index' = IF loaded THEN index + 1 ELSE index
         /\ spinePos' = spinePos + 1
         /\ IF spinePos = Len(file.spine)
            THEN pc' = "resolved" /\ data' = epubResult(file, chs)
            ELSE pc' = "epub" /\ data' = data
  /\ UNCHANGED <<callVars, encoding, text, io, error, lastIndex, points,
                 appVars>>

\* What the call has written to the console so far: console.log("Detected
\* encoding:", detected) once the prefix was read with jschardet loaded, and
\* console.warn("Failed to load chapter", item, err) for every spine item
\* whose load failed.  Nothing else is written by parseFile, and what it
\* resolves with has the fields title, chapters and fullText only.
consoleMessages ==
  (IF "slice" \in io /\ file.prefixReads /\ window.jschardet
   THEN {"Detected encoding:"} ELSE {})
  \cup
  (IF extensionOf(file.name) = ExtEpub
      /\ \E k \in 1..(spinePos - 1) : file.spine[k].doc = "error"
   THEN {"Failed to load chapter"} ELSE {})

\* rejectUnsupported reading the file before it looks at the extension.
rejectUnsupported_afterRead ==
  /\ pc = "start"
  /\ extensionOf(file.name) \notin {ExtTxt, ExtDocx, ExtEpub}
  /\ pc' = "rejected"
  /\ error' = Some(ErrUnsupported)
  /\ io' = io \cup {"read"}
  /\ UNCHANGED <<callVars, encoding, text, lastIndex, points, spinePos,
                 index, chapters, data, appVars>>

\* throw new Error("不支持的文件格式。...")
rejectUnsupported ==
  /\ pc = "start"
  /\ extensionOf(file.name) \notin {ExtTxt, ExtDocx, ExtEpub}
  /\ pc' = "rejected"
  /\ error' = Some(ErrUnsupported)
  /\ UNCHANGED <<callVars, encoding, text, io, lastIndex, points, spinePos,
                 index, chapters, data, appVars>>

(***************************************************************************)
(* App: handleOpenFromLibrary after parseFile settled, the table of        *)
(* contents, and the derived active chapter.                               *)
(***************************************************************************)
\* The chapter ids a saved reading progress may name.
SavedIds == {"chap-pre", ChapId(0), ChapId(1), ChapId(2)}

\* data.chapters.findIndex(c => c.id === id)
findIndex(chs, id) ==
  LET hits == {k \in 1..Len(chs) : chs[k].id = id}
  IN  IF hits = {} THEN -1
      ELSE (CHOOSE k \in hits : \A j \in hits : k <= j) - 1

\* if (data.fullText) setFullText(data.fullText), after setFullText(null)
retainedText(d) ==
  IF d.fullText.some /\ d.fullText.value # <<>> THEN d.fullText ELSE None

\* Restore progress: the index to show, given the saved progress (if any)
restoredIndex(chs, saved, current) ==
  IF saved.some
  THEN IF findIndex(chs, saved.value) >= 0
       THEN findIndex(chs, saved.value) ELSE current
  ELSE 0

\* parseFile resolved: setBook, setFullText, restore progress.
openBook ==
  /\ pc = "resolved"
  /\ \E saved \in {None} \cup {Some(id) : id \in SavedIds} :
       currentChapterIndex' =
         restoredIndex(data.value.chapters, saved, currentChapterIndex)
  /\ book' = Some([title |-> data.value.title,
                   chapters |-> data.value.chapters])
  /\ fullText' = retainedText(data.value)
  /\ pc' = "open"
  /\ UNCHANGED <<callVars, parseVars, data>>

\* parseFile rejected: catch (err) { alert("打开书籍失败") }
openFailed ==
  /\ pc = "rejected"
  /\ pc' = "failed"
  /\ UNCHANGED <<callVars, parseVars, data, appVars>>

\* A click in the table of contents: setCurrentChapterIndex(idx)
selectChapter ==
  /\ pc = "open"
  /\ book.some
  /\ \E idx \in 0..(Len(book.value.chapters) - 1) :
       currentChapterIndex' = idx
  /\ UNCHANGED <<callVars, pc, parseVars, data, book, fullText>>

\* The arrows and the buttons of the reader, shown when there is a chapter
\* before: setCurrentChapterIndex(c => c - 1)
previousChapter ==
  /\ pc = "open"
  /\ book.some
  /\ currentChapterIndex > 0
  /\ currentChapterIndex' = currentChapterIndex - 1
  /\ UNCHANGED <<callVars, pc, parseVars, data, book, fullText>>

\* ... and when there is a chapter after: setCurrentChapterIndex(c => c + 1)
nextChapter ==
  /\ pc = "open"
  /\ book.some
  /\ currentChapterIndex < Len(book.value.chapters) - 1
  /\ currentChapterIndex' = currentChapterIndex + 1
  /\ UNCHANGED <<callVars, pc, parseVars, data, book, fullText>>

\* A click on a bookmark: the chapter it names is shown if the book has it.
openBookmark ==
  /\ pc = "open"
  /\ book.some
  /\ \E id \in SavedIds :
       /\ findIndex(book.value.chapters, id) >= 0
       /\ currentChapterIndex' = findIndex(book.value.chapters, id)
  /\ UNCHANGED <<callVars, pc, parseVars, data, book, fullText>>

\* `<p>${line}</p>`
Paragraph(line) == <<"<", "p", ">">> \o line \o <<"<", "/", "p", ">">>

\* rawContent.split('\n').map(line => `<p>${line}</p>`).join('')
toParagraphs(rawContent) ==
  LET lines == SplitLines(rawContent)
  IN  JoinAll([k \in 1..Len(lines) |-> Paragraph(lines[k])])

\* The de-duplication of the title line at the top of the slice.
stripTitleLine(rawContent, title) ==
  LET firstNewline == IndexOf(rawContent, <<NL>>)
      firstLine == Trim(Substring(rawContent, 0, firstNewline))
  IN  IF firstNewline # -1
         /\ (Includes(firstLine, Trim(title)) \/ Includes(Trim(title), firstLine))
      THEN Substring(rawContent, firstNewline + 1, Len(rawContent))
      ELSE rawContent

\* <p>正在加载内容...</p>
LoadingContent ==
  Paragraph(<<"U+6B63", "U+5728", "U+52A0", "U+8F7D", "U+5185", "U+5BB9",
              ".", ".", ".">>)

\* chapterContent slicing an absent full text as if it were the empty text.
chapterContent_sliceWithoutText(ch, ft) ==
  IF "content" \in DOMAIN ch /\ ch.content # <<>>
  THEN ch.content
  ELSE IF "startStringIndex" \in DOMAIN ch
  THEN LET buffer == IF ft.some THEN ft.value ELSE <<>>
           rawContent == Substring(buffer, ch.startStringIndex,
                                   Min(ch.endStringIndex, Len(buffer)))
       IN  toParagraphs(stripTitleLine(rawContent, ch.title))
  ELSE LoadingContent

\* The content shown for chapter ch, given the retained full text ft.
chapterContent(ch, ft) ==
  IF "content" \in DOMAIN ch /\ ch.content # <<>>
  THEN ch.content
  ELSE IF ft.some /\ ft.value # <<>> /\ "startStringIndex" \in DOMAIN ch
  THEN LET end == IF "endStringIndex" \in DOMAIN ch
                  THEN ch.endStringIndex ELSE Len(ft.value)
           rawContent == Substring(ft.value, ch.startStringIndex, end)
       IN  toParagraphs(stripTitleLine(rawContent, ch.title))
  ELSE LoadingContent

\* useMemo(..., [book, currentChapterIndex, fullText]): null without a book,
\* a TypeError when the index names no chapter, else the chapter with its
\* content.
activeChapterData ==
  IF ~ book.some THEN [kind |-> "null"]
  ELSE IF currentChapterIndex + 1 \notin 1..Len(book.value.chapters)
  THEN [kind |-> "throws"]
  ELSE LET ch == book.value.chapters[currentChapterIndex + 1]
       IN  [kind |-> "chapter", id |-> ch.id, title |-> ch.title,
            index |-> ch.index, content |-> chapterContent(ch, fullText)]

Next ==
  \/ detectEncoding
  \/ parseTxt
  \/ scanTurn
  \/ resumeScan
  \/ parseDocx
  \/ parseEpub
  \/ loadSpineItem
  \/ rejectUnsupported
  \/ openBook
  \/ openFailed
  \/ selectChapter
  \/ previousChapter
  \/ nextChapter
  \/ openBookmark

Spec == Init /\ [][Next]_vars

\* The event loop runs every callback that is pending: a FileReader callback,
\* a promise reaction or a timer that can run does run in the end.  Nothing
\* makes the reader click.
\* The loop of parseTxtContentOptimized has a branch for every outcome of
\* exec and each of them moves lastIndex or leaves the loop, so a turn of it
\* can be taken exactly when pc = "scan": fairness of scanTurn, with its
\* enabling condition written out.
scanTurnFair == []<>(pc # "scan") \/ []<><<scanTurn>>_vars

callbacksFair ==
  /\ WF_vars(detectEncoding)
  /\ WF_vars(parseTxt)
  /\ scanTurnFair
  /\ WF_vars(resumeScan)
  /\ WF_vars(parseDocx)
  /\ WF_vars(parseEpub)
  /\ WF_vars(loadSpineItem)
  /\ WF_vars(rejectUnsupported)
  /\ WF_vars(openBook)
  /\ WF_vars(openFailed)

SpecLive == Spec /\ callbacksFair

(***************************************************************************)
(* handleFileUpload: a batch import.                                       *)
(***************************************************************************)
\* The most files selected at once.
MaxFiles == 2

\* The documents of a selection come from one folder: the one at position i
\* has a name of its own.
RenameAt(f, i) ==
  [f EXCEPT !.name = <<(<<"a", "b", "c", "d">>)[i]>> \o Tail(f.name)]

HeadingText == <<Di, "1", "U+7AE0", NL, "x">>

\* What may be selected: documents that import, documents that fail in
\* each way parseFile fails, and one whose save fails.
ImportEntries ==
  {[file |-> f, saves |-> TRUE] :
     f \in {File(NameTxt, HeadingText, <<>>, <<>>, <<>>),
            [File(NameTxt, <<Di, "1", "U+7AE0">>, <<>>, <<>>, <<>>) EXCEPT
               !.charset = "euc-tw", !.detected = Some("EUC-TW")],
            File(NameDocx, <<>>, <<"h">>, <<>>, <<>>),
            [File(NameDocx, <<>>, <<"h">>, <<>>, <<>>) EXCEPT
               !.fullReads = FALSE],
            File(NameEpub, <<>>, <<>>, <<BodyItem>>, <<>>),
            File(NamePdf, <<>>, <<>>, <<>>, <<>>)}}
  \cup {[file |-> File(NameTxt, HeadingText, <<>>, <<>>, <<>>),
         saves |-> FALSE]}

\* The selections: up to MaxFiles of them, the long document alone or as the
\* second of two.
LongEntry ==
  [file |-> File(NameTxt, Headings(YieldEvery), <<>>, <<>>, <<>>),
   saves |-> TRUE]

Batches ==
  {[i \in 1..Len(b) |-> [b[i] EXCEPT !.file = RenameAt(b[i].file, i)]] :
     b \in StringsUpTo(ImportEntries, MaxFiles)
            \cup {Append(c, LongEntry) : c \in StringsUpTo(ImportEntries, 1)}}

\* No call of parseFile was made yet.
NoFile == File(<<>>, <<>>, <<>>, <<>>, <<>>)

InitImport ==
  /\ file = NoFile
  /\ window \in {AllLoaded, Window(TRUE, FALSE, FALSE)}
  /\ pc = "none"
  /\ encoding = None
  /\ text = <<>>
  /\ io = {}
  /\ error = None
  /\ lastIndex = 0
  /\ points = <<>>
  /\ spinePos = 1
  /\ index = 0
  /\ chapters = <<>>
  /\ data = None
  /\ AppIdle
  /\ ImportIdle
  /\ ShelfIdle

\* file.size
FileSize(f) == Len(f.text) + Len(f.html) + Len(f.spine)

\* `${file.name}-${file.size}`
bookId(f) == f.name \o <<"-">> \o NumberString(FileSize(f))

\* The record handed to saveBookToDB.
libraryBook(f, d, t) ==
  [file |-> f, title |-> d.title, totalChapters |-> Len(d.chapters),
   lastReadTimestamp |-> t, addedAt |-> t]

\* store.put(book)
put(store, id, rec) ==
  [i \in DOMAIN store \cup {id} |-> IF i = id THEN rec ELSE store[i]]

\* a.metadata.lastReadTimestamp || a.addedAt
shelfTime(rec) ==
  IF rec.lastReadTimestamp # 0 THEN rec.lastReadTimestamp ELSE rec.addedAt

\* refreshLibrary: the books of the store, the latest first.
sortedLibrary(store) ==
  [k \in 1..Cardinality(DOMAIN store) |->
     CHOOSE id \in DOMAIN store :
       Cardinality({j \in DOMAIN store :
                      shelfTime(store[j]) > shelfTime(store[id])}) = k - 1]

\* The input is enabled: files are selected.  Without a file the handler
\* returns.
handleFileUpload ==
  /\ stage = "idle"
  /\ ~ loading
  /\ \E fl \in Batches :
       IF fl = <<>>
       THEN /\ stage' = "done"
            /\ UNCHANGED <<fileList, loading>>
       ELSE /\ stage' = "next"
            /\ fileList' = fl
            /\ loading' = TRUE
  /\ UNCHANGED <<file, window, pc, parseVars, data, appVars, library, db, now,
                 cursor, successCount, failList, inFlight, started, requests>>

\* parseFile is called: a call of its own, nothing left of an earlier one.
callStarts ==
  /\ pc' = "start"
  /\ encoding' = None
  /\ text' = <<>>
  /\ io' = {}
  /\ error' = None
  /\ lastIndex' = 0
  /\ points' = <<>>
  /\ spinePos' = 1
  /\ index' = 0
  /\ chapters' = <<>>
  /\ data' = None

\* for (const file of fileList): await parseFile(file)
importParse ==
  /\ stage = "next"
  /\ cursor <= Len(fileList)
  /\ stage' = "parse"
  /\ file' = fileList[cursor].file
  /\ callStarts
  /\ inFlight' = inFlight \cup {cursor}
  /\ started' = Append(started, cursor)
  /\ UNCHANGED <<window, appVars, loading, library, db, now, fileList, cursor,
                 successCount, failList, requests>>

\* importSave going on to the next file without awaiting the save.
importSave_noAwait ==
  /\ stage = "parse"
  /\ pc = "resolved"
  /\ stage' = "next"
  /\ cursor' = cursor + 1
  /\ UNCHANGED <<file, window, pc, parseVars, data, appVars, loading, library,
                 db, now, fileList, successCount, failList, inFlight, started,
                 requests>>

\* parseFile resolved: await saveBookToDB({...})
importSave ==
  /\ stage = "parse"
  /\ pc = "resolved"
  /\ stage' = "save"
  /\ UNCHANGED <<file, window, pc, parseVars, data, appVars, loading, library,
                 db, now, fileList, cursor, successCount, failList, inFlight,
                 started, requests>>

\* The save settled: successCount++, or the catch lists the file as failed.
importSaved ==
  /\ stage = "save"
  /\ IF fileList[cursor].saves
     THEN /\ db' = put(db, bookId(file), libraryBook(file, data.value, now))
          /\ now' = now + 1
          /\ successCount' = successCount + 1
          /\ failList' = failList
     ELSE /\ failList' = Append(failList, file.name)
          /\ UNCHANGED <<db, now, successCount>>
  /\ inFlight' = inFlight \ {cursor}
  /\ cursor' = cursor + 1
  /\ stage' = "next"
  /\ UNCHANGED <<file, window, pc, parseVars, data, appVars, loading, library,
                 fileList, started, requests>>

\* parseFile rejected: failList.push(file.name)
importFailed ==
  /\ stage = "parse"
  /\ pc = "rejected"
  /\ failList' = Append(failList, file.name)
  /\ inFlight' = inFlight \ {cursor}
  /\ cursor' = cursor + 1
  /\ stage' = "next"
  /\ UNCHANGED <<file, window, pc, parseVars, data, appVars, loading, library,
                 db, now, fileList, successCount, started, requests>>

\* After the loop: await refreshLibrary(); setLoading(false)
importDone ==
  /\ stage = "next"
  /\ cursor > Len(fileList)
  /\ library' = sortedLibrary(db)
  /\ loading' = FALSE
  /\ stage' = "done"
  /\ UNCHANGED <<file, window, pc, parseVars, data, appVars, db, now,
                 fileList, cursor, successCount, failList, inFlight, started,
                 requests>>

NextImport ==
  \/ handleFileUpload
  \/ importParse
  \/ detectEncoding
  \/ parseTxt
  \/ scanTurn
  \/ resumeScan
  \/ parseDocx
  \/ parseEpub
  \/ loadSpineItem
  \/ rejectUnsupported
  \/ importSave
  \/ importSaved
  \/ importFailed
  \/ importDone

SpecImport == InitImport /\ [][NextImport]_vars

(***************************************************************************)
(* parseFile as one function of the document, for the calls that run side  *)
(* by side.                                                                *)
(***************************************************************************)
\* PASS 1 run to its end from offset from.
RECURSIVE scanAll(_, _, _)
scanAll(t, from, pts) ==
  LET match == exec(t, from)
      titleLine == Trim(match.group1)
  IN  IF ~ match.found THEN pts
      ELSE IF ~ titleAccepted(titleLine) THEN scanAll(t, match.lastIndex, pts)
      ELSE scanAll(t, match.lastIndex,
                   Append(pts, [title |-> titleLine,
                                startIndex |-> startIndexOf(match)]))

\* The loop over spine.items run to its end.
RECURSIVE loadAll(_, _)
loadAll(items, chs) ==
  IF items = <<>> THEN chs
  ELSE loadAll(Tail(items),
               IF Head(items).doc # "error"
               THEN Append(chs, spineChapter(Head(items), Len(chs)))
               ELSE chs)

\* How the promise of parseFile settles: "resolved", "rejected", or "never".
settles(f, w) ==
  CASE extensionOf(f.name) = ExtTxt ->
         IF f.fullReads
            /\ encodingOfLabel(sniffedEncoding(f, w).value) # "failure"
         THEN "resolved" ELSE "rejected"
    [] extensionOf(f.name) = ExtDocx ->
         IF ~ w.mammoth THEN "rejected"
         ELSE IF ~ f.fullReads THEN "never"
         ELSE IF f.corrupt THEN "rejected" ELSE "resolved"
    [] extensionOf(f.name) = ExtEpub ->
         IF ~ w.ePub THEN "rejected"
         ELSE IF ~ f.fullReads THEN "never"
         ELSE IF f.corrupt THEN "rejected" ELSE "resolved"
    [] OTHER -> "rejected"

\* The text parseFile decodes.
decodedText(f, w) == decode(encodingOfLabel(sniffedEncoding(f, w).value), f)

\* What parseFile resolves with, when it does.
parseFileResult(f, w) ==
  CASE extensionOf(f.name) = ExtTxt ->
         txtResult(f, decodedText(f, w), scanAll(decodedText(f, w), 0, <<>>))
    [] extensionOf(f.name) = ExtDocx -> docxResult(f)
    [] OTHER -> epubResult(f, loadAll(f.spine, <<>>))

(***************************************************************************)
(* The bookshelf: handleOpenFromLibrary and the return to the shelf.       *)
(***************************************************************************)
\* The most books opened from the shelf.
MaxOpens == 3

\* The books on the shelf: two plain texts with content, an empty one, and
\* a docx.
ShelfDocs ==
  <<File(<<"a", ".", "t", "x", "t">>, HeadingText, <<>>, <<>>, <<>>),
    File(<<"b", ".", "t", "x", "t">>, <<"x">>, <<>>, <<>>, <<>>),
    File(<<"c", ".", "t", "x", "t">>, <<>>, <<>>, <<>>, <<>>),
    File(<<"d", ".", "d", "o", "c", "x">>, <<>>, <<"h">>, <<>>, <<>>)>>

ShelfIds == {bookId(ShelfDocs[k]) : k \in 1..Len(ShelfDocs)}

\* The store after the books were imported one after the other.
ImportedStore ==
  [id \in ShelfIds |->
     LET k == CHOOSE j \in 1..Len(ShelfDocs) : bookId(ShelfDocs[j]) = id
     IN  libraryBook(ShelfDocs[k],
                     parseFileResult(ShelfDocs[k], AllLoaded).value, k)]

InitShelf ==
  /\ file = NoFile
  /\ window \in {AllLoaded, Window(TRUE, FALSE, TRUE)}
  /\ pc = "none"
  /\ encoding = None
  /\ text = <<>>
  /\ io = {}
  /\ error = None
  /\ lastIndex = 0
  /\ points = <<>>
  /\ spinePos = 1
  /\ index = 0
  /\ chapters = <<>>
  /\ data = None
  /\ AppIdle
  /\ ImportIdle
  /\ loading = FALSE
  /\ db = ImportedStore
  /\ library = sortedLibrary(db)
  /\ now = Len(ShelfDocs) + 1
  /\ requests = <<>>

\* A card of the shelf can be activated: the shelf is rendered only without
\* an open book.  While loading is set an overlay is drawn over the shelf,
\* which takes the clicks of a pointer; the card itself is not disabled and
\* its onClick does not look at loading (the buttons and the file input of
\* the shelf do: disabled={loading}).
shelfClickable == ~ book.some

\* The calls of handleOpenFromLibrary made so far: Date.now() was read once
\* by each call that is past its first await.
opens ==
  (now - Len(ShelfDocs) - 1)
    + Cardinality({k \in 1..Len(requests) : requests[k].stage = "db"})

\* The sequence without its k-th element.
Without(seq, k) == SubSeq(seq, 1, k - 1) \o SubSeq(seq, k + 1, Len(seq))

\* A click on a card: handleOpenFromLibrary runs up to its first await.
openFromLibrary ==
  /\ shelfClickable
  /\ opens < MaxOpens
  /\ \E k \in 1..Len(library) :
       requests' = Append(requests, [id |-> library[k], stage |-> "db"])
  /\ loading' = TRUE
  /\ UNCHANGED <<file, window, pc, parseVars, data, appVars, library, db, now,
                 importVars>>

\* updateBookLastRead and getBookFromDB settled: the record is there, and
\* setFullText(null) runs before parseFile is called.
recordLoaded ==
  /\ \E k \in 1..Len(requests) :
       /\ requests[k].stage = "db"
       /\ db' = [db EXCEPT ![requests[k].id].lastReadTimestamp = now]
       /\ requests' = [requests EXCEPT ![k].stage = "parse"]
  /\ now' = now + 1
  /\ fullText' = None
  /\ UNCHANGED <<file, window, pc, parseVars, data, book,
                 currentChapterIndex, loading, library, importVars>>

\* parseFile resolved: setBook, if (data.fullText) setFullText, restore the
\* progress, refresh the shelf; finally setLoading(false).
openResolved ==
  /\ \E k \in 1..Len(requests) :
       \E d \in {parseFileResult(db[requests[k].id].file, window).value} :
           /\ requests[k].stage = "parse"
           /\ settles(db[requests[k].id].file, window) = "resolved"
           /\ book' = Some([id |-> requests[k].id, title |-> d.title,
                            chapters |-> d.chapters])
           /\ fullText' = IF retainedText(d).some THEN retainedText(d)
                          ELSE fullText
           /\ \E saved \in {None} \cup {Some(id) : id \in SavedIds} :
                currentChapterIndex' =
                  restoredIndex(d.chapters, saved, currentChapterIndex)
           /\ requests' = Without(requests, k)
  /\ library' = sortedLibrary(db)
  /\ loading' = FALSE
  /\ UNCHANGED <<file, window, pc, parseVars, data, db, now, importVars>>

\* parseFile rejected: the catch alerts; finally setLoading(false).
openRejected ==
  /\ \E k \in 1..Len(requests) :
       /\ requests[k].stage = "parse"
       /\ settles(db[requests[k].id].file, window) = "rejected"
       /\ requests' = Without(requests, k)
  /\ loading' = FALSE
  /\ UNCHANGED <<file, window, pc, parseVars, data, appVars, library, db, now,
                 importVars>>

\* The button 书架: setBook(null); setFullText(null); refreshLibrary()
returnToShelf ==
  /\ book.some
  /\ book' = None
  /\ fullText' = None
  /\ library' = sortedLibrary(db)
  /\ UNCHANGED <<file, window, pc, parseVars, data, currentChapterIndex,
                 loading, db, now, importVars, requests>>

NextShelf ==
  \/ openFromLibrary
  \/ recordLoaded
  \/ openResolved
  \/ openRejected
  \/ returnToShelf

SpecShelf == InitShelf /\ [][NextShelf]_vars

(***************************************************************************)
(* A call of parseFile on a text long enough for PASS 1 to yield, with     *)
(* cards of the bookshelf clicked while the call is suspended: the calls   *)
(* of handleOpenFromLibrary run up to their own parseFile, or fail.        *)
(***************************************************************************)
\* The most cards clicked while the scan is suspended.
MaxYieldEvents == 1

InitYield ==
  /\ \E f \in Files : f.text \in LongTexts /\ file = f
  /\ window \in {AllLoaded, Window(TRUE, FALSE, TRUE)}
  /\ CallIdle
  /\ AppIdle
  /\ ImportIdle
  /\ loading = FALSE
  /\ db = ImportedStore
  /\ library = sortedLibrary(db)
  /\ now = Len(ShelfDocs) + 1
  /\ requests = <<>>

\* await new Promise(r => setTimeout(r, 0)) has not resolved yet: the
\* handlers of other events run.
suspended == pc = "yield"

NextYield ==
  \/ detectEncoding
  \/ parseTxt
  \/ scanTurn
  \/ resumeScan
  \/ (suspended /\ opens < MaxYieldEvents /\ openFromLibrary)
  \/ (suspended /\ recordLoaded)
  \/ (suspended /\ openRejected)

SpecYield == InitYield /\ [][NextYield]_vars

(***************************************************************************)
(* Properties of the chapters of a plain-text document.                    *)
(***************************************************************************)
\* parseFile has resolved for a plain-text document.
TxtResolved == pc = "resolved" /\ extensionOf(file.name) = ExtTxt

\* The chapters parseFile resolved with.
Result == data.value.chapters

\* The chapters of Result whose range holds offset pos.
Covering(pos) ==
  {k \in 1..Len(Result) :
     Result[k].startStringIndex <= pos /\ pos < Result[k].endStringIndex}

\* C1: the ranges of the chapters of a text partition [0, text.length): each
\* offset of the text lies in the range of exactly one chapter.
C1_RangesPartitionText ==
  TxtResolved =>
    \A pos \in 0..(Len(text) - 1) : Cardinality(Covering(pos)) = 1

\* C2: when the first accepted candidate starts at an offset of at most 50,
\* there is no synthetic leading chapter and the first chapter starts at 0.
C2_FirstChapterStartsAtZero ==
  (TxtResolved /\ points # <<>>
     /\ points[1].startIndex <= PrologueThreshold) =>
    /\ Result[1].id # "chap-pre"
    /\ Result[1].title = points[1].title
    /\ Result[1].startStringIndex = 0

\* C3: when the first accepted candidate starts at an offset s > 50, the
\* result is the synthetic chapter "开始" with index 0 over [0, s), then one
\* chapter per accepted candidate in scan order: k candidates, k + 1 chapters.
C3_LeadingChapter ==
  (TxtResolved /\ points # <<>>
     /\ points[1].startIndex > PrologueThreshold) =>
    /\ Len(Result) = Len(points) + 1
    /\ Result[1].title = TitleStart
    /\ Result[1].index = 0
    /\ Result[1].startStringIndex = 0
    /\ Result[1].endStringIndex = points[1].startIndex
    /\ \A k \in 1..Len(points) :
         /\ Result[k + 1].title = points[k].title
         /\ Result[k + 1].startStringIndex = points[k].startIndex

\* Reached: first candidate at offset 51, the smallest offset past the
\* threshold, and the two chapters built.
C3_Witness ==
  /\ TxtResolved
  /\ points # <<>>
  /\ points[1].startIndex = PrologueThreshold + 1
  /\ Len(Result) = 2

\* C4: when no candidate is accepted, the result is exactly one chapter,
\* titled "全文", with index 0 and the range [0, text.length).
C4_FullTextFallback ==
  (TxtResolved /\ points = <<>>) =>
    /\ Len(Result) = 1
    /\ Result[1].title = TitleFullText
    /\ Result[1].index = 0
    /\ Result[1].startStringIndex = 0
    /\ Result[1].endStringIndex = Len(text)

\* Reached: a text with a heading-like line, which the filter rejected.
C4_Witness ==
  /\ TxtResolved
  /\ points = <<>>
  /\ exec(text, 0).found
  /\ Len(Result) = 1

\* Does the string s hold a character of the set S?
HasCharIn(s, S) == \E k \in 1..Len(s) : s[k] \in S

\* The punctuation the claim names: full stop, comma and quotation marks.
ClaimedPunctuation ==
  {".", "U+3002", ",", "U+FF0C", "\"", "U+201C", "U+201D", "'"}

\* C5 as stated: no accepted candidate has a title that holds a full stop, a
\* comma or a quotation mark, the ASCII full stop included.
C5_NoPunctuatedBoundary ==
  TxtResolved =>
    \A k \in 1..Len(points) : ~ HasCharIn(points[k].title, ClaimedPunctuation)

\* The line of t that holds offset i, from i to the next line break.
LineFrom(t, i) == Substring(t, i, SkipUntil(t, i, {NL}))

\* The text has exactly one heading-like line (one match of chapterRegex),
\* and its trimmed title holds a character of S.
OnlyMatchHas(t, S) ==
  LET m == exec(t, 0)
  IN  /\ m.found
      /\ ~ exec(t, m.lastIndex).found
      /\ HasCharIn(Trim(m.group1), S)

\* C5 amended: a heading-like line whose trimmed title holds one of the
\* characters , ， 。 ？ ！ “ ” ! ? " ' ; is never a chapter boundary: no
\* accepted candidate has such a title or starts on a line with such a
\* character; and when the only heading-like line of the text is such a line,
\* the result is the single chapter "全文".  (An ASCII full stop rejects
\* nothing.)
C5_InvalidCharsRejected ==
  /\ \A k \in 1..Len(points) :
       /\ ~ HasCharIn(points[k].title, invalidTitleChars)
       /\ ~ HasCharIn(LineFrom(text, points[k].startIndex),
                      invalidTitleChars)
  /\ (TxtResolved /\ OnlyMatchHas(text, invalidTitleChars)) =>
       /\ Len(Result) = 1
       /\ Result[1].title = TitleFullText

\* Reached: the only heading-like line of the text holds an invalid
\* character, and the result is the single chapter.
C5_Witness ==
  /\ TxtResolved
  /\ OnlyMatchHas(text, invalidTitleChars)
  /\ Len(Result) = 1
  /\ Result[1].title = TitleFullText

\* The start offsets of the accepted candidates are strictly increasing.
PointsIncrease ==
  \A k \in 1..(Len(points) - 1) :
    points[k].startIndex < points[k + 1].startIndex

\* C6 as stated: every chapter of every text has
\* 0 <= startStringIndex < endStringIndex <= text.length.
C6_NonEmptyRanges ==
  TxtResolved =>
    /\ PointsIncrease
    /\ \A k \in 1..Len(Result) :
         /\ 0 <= Result[k].startStringIndex
         /\ Result[k].startStringIndex < Result[k].endStringIndex
         /\ Result[k].endStringIndex <= Len(text)

\* C6 amended: every chapter has 0 <= startStringIndex <= endStringIndex <=
\* text.length, and startStringIndex < endStringIndex unless the text is
\* empty; the start offsets of the accepted candidates strictly increase.
C6_RangesWithinText ==
  TxtResolved =>
    /\ PointsIncrease
    /\ \A k \in 1..Len(Result) :
         /\ 0 <= Result[k].startStringIndex
         /\ Result[k].startStringIndex <= Result[k].endStringIndex
         /\ Result[k].endStringIndex <= Len(text)
         /\ text # <<>> =>
              Result[k].startStringIndex < Result[k].endStringIndex

\* Reached: a text with several accepted candidates and their chapters.
C6_Witness ==
  /\ TxtResolved
  /\ Len(points) >= 2
  /\ Len(Result) >= 2

\* C7: each chapter ends where the next one starts, and the last chapter ends
\* at text.length.
C7_Contiguous ==
  TxtResolved =>
    /\ \A k \in 1..(Len(Result) - 1) :
         Result[k].endStringIndex = Result[k + 1].startStringIndex
    /\ Result[Len(Result)].endStringIndex = Len(text)

\* Reached: a synthetic leading chapter followed by detected chapters.
C7_Witness ==
  /\ TxtResolved
  /\ Len(Result) >= 3
  /\ Result[1].id = "chap-pre"

(***************************************************************************)
(* Properties of the chapters of every document, and of the active chapter.*)
(***************************************************************************)
\* C8: every chapter parseFile resolves with has either content and no
\* offsets, or both offsets and no content.
C8_OneStrategy ==
  pc = "resolved" =>
    \A k \in 1..Len(Result) :
      LET fields == DOMAIN Result[k]
      IN  \/ /\ "content" \in fields
             /\ "startStringIndex" \notin fields
             /\ "endStringIndex" \notin fields
          \/ /\ "content" \notin fields
             /\ "startStringIndex" \in fields
             /\ "endStringIndex" \in fields

\* Reached: an epub whose spine item loaded as neither a document with a
\* body nor a string, and became a chapter.
C8_Witness ==
  /\ pc = "resolved"
  /\ extensionOf(file.name) = ExtEpub
  /\ Len(file.spine) = 1
  /\ file.spine[1].doc = "other"
  /\ Len(Result) = 1

\* C9: the chapter at position k (from 0) has index k, and the ids of the
\* chapters are pairwise distinct.
C9_IndexIsPosition ==
  pc = "resolved" =>
    /\ \A k \in 1..Len(Result) : Result[k].index = k - 1
    /\ \A j, k \in 1..Len(Result) : j # k => Result[j].id # Result[k].id

\* Reached: an epub whose first spine item was skipped and whose second one
\* became the chapter at position 0.
C9_Witness ==
  /\ pc = "resolved"
  /\ extensionOf(file.name) = ExtEpub
  /\ Len(file.spine) = 2
  /\ file.spine[1].doc = "error"
  /\ Len(Result) = 1

\* C10: when the slice of an offset-based active chapter has the chapter's
\* title as its first line, the content shown is the slice without that
\* line: one paragraph for each later line, and nothing else.
C10_TitleLineStripped ==
  (pc = "open" /\ activeChapterData.kind = "chapter" /\ fullText.some) =>
    LET ch == book.value.chapters[currentChapterIndex + 1]
    IN  "startStringIndex" \in DOMAIN ch =>
          LET slice == Substring(fullText.value, ch.startStringIndex,
                                 ch.endStringIndex)
              lines == SplitLines(slice)
          IN  Trim(lines[1]) = ch.title =>
                activeChapterData.content =
                  JoinAll([k \in 1..(Len(lines) - 1) |->
                             Paragraph(lines[k + 1])])

(***************************************************************************)
(* Properties of the materialization and of the structured formats.        *)
(***************************************************************************)
\* The chapter of the open book that currentChapterIndex names.
ActiveChapter == book.value.chapters[currentChapterIndex + 1]

\* C11: when the active chapter has content populated, the content shown is
\* that content unchanged, for every populated value, the empty string
\* included.
C11_PopulatedContentUnchanged ==
  (book.some /\ activeChapterData.kind = "chapter") =>
    ("content" \in DOMAIN ActiveChapter =>
       activeChapterData.content = ActiveChapter.content)

\* C12: when the active chapter has offsets and no full text is retained,
\* the content shown is the placeholder <p>正在加载内容...</p>, and the
\* derivation does not throw.
C12_PlaceholderWithoutText ==
  (book.some /\ currentChapterIndex + 1 \in 1..Len(book.value.chapters)) =>
    (("startStringIndex" \in DOMAIN ActiveChapter /\ ~ fullText.some) =>
       /\ activeChapterData.kind = "chapter"
       /\ activeChapterData.content = LoadingContent)

\* Reached: a book whose active chapter has offsets is open while no full
\* text is retained, and the placeholder is shown.
C12_Witness ==
  /\ book.some
  /\ currentChapterIndex + 1 \in 1..Len(book.value.chapters)
  /\ "startStringIndex" \in DOMAIN ActiveChapter
  /\ ~ fullText.some
  /\ activeChapterData.content = LoadingContent

\* C13: parseFile never resolves a docx or an epub document with an empty
\* chapter sequence.
C13_StructuredNeverEmpty ==
  (pc = "resolved" /\ extensionOf(file.name) \in {ExtDocx, ExtEpub}) =>
    Len(Result) >= 1

(***************************************************************************)
(* Properties of the dispatch, the sniffer and the decoder.                *)
(***************************************************************************)
IsTxt == extensionOf(file.name) = ExtTxt
Accepted == {ExtTxt, ExtDocx, ExtEpub}

\* C14: parseFile on a plain-text document whose bytes can be read never
\* rejects, whatever label the sniffer returned.
C14_TxtNeverRejects ==
  (IsTxt /\ file.fullReads) => pc # "rejected"

\* C15: detectEncoding always resolves with a label: a plain-text call can
\* always take the step, after it an encoding is known, a rejection comes
\* only from reading the whole file, and the label is 'utf-8' when jschardet
\* is not loaded, when it answers no encoding, and when the read of the
\* prefix fails.
C15_SnifferAlwaysResolves ==
  IsTxt =>
    /\ pc = "start" => ENABLED detectEncoding
    /\ pc # "start" =>
         /\ encoding.some
         /\ "slice" \in io
         /\ (~ window.jschardet \/ ~ file.detected.some \/ ~ file.prefixReads)
              => encoding.value = DefaultEncoding
    /\ pc = "rejected" => "read" \in io

\* Reached: jschardet is loaded and answers no encoding for the prefix that
\* was read, and detectEncoding resolved with 'utf-8'.
C15_Witness ==
  /\ IsTxt
  /\ pc = "sniffed"
  /\ window.jschardet
  /\ file.prefixReads
  /\ ~ file.detected.some
  /\ encoding = Some(DefaultEncoding)

\* C16: a document whose extension is none of txt, docx, epub is rejected
\* with the error that names .txt, .docx and .epub (the extensions the
\* dispatch accepts), without chapters and without a read, a sniff or a
\* conversion started.
C16_UnsupportedRejected ==
  extensionOf(file.name) \notin Accepted =>
    /\ pc \in {"start", "rejected", "failed"}
    /\ io = {}
    /\ data = None
    /\ pc # "start" =>
         /\ error.some
         /\ error.value.accepted = {<<".">> \o e : e \in Accepted}

\* Reached: a.pdf was rejected.
C16_Witness ==
  /\ file.name = NamePdf
  /\ pc = "rejected"
  /\ error = Some(ErrUnsupported)

(***************************************************************************)
(* Properties of a batch import.                                           *)
(***************************************************************************)
\* The converter the document needs is not loaded.
converterMissing(f, w) ==
  \/ extensionOf(f.name) = ExtDocx /\ ~ w.mammoth
  \/ extensionOf(f.name) = ExtEpub /\ ~ w.ePub

\* parseFile resolves for the document, taken on its own.
ingests(f, w) ==
  CASE extensionOf(f.name) = ExtTxt ->
         f.fullReads /\ encodingOfLabel(sniffedEncoding(f, w).value) # "failure"
    [] extensionOf(f.name) = ExtDocx -> w.mammoth /\ f.fullReads /\ ~ f.corrupt
    [] extensionOf(f.name) = ExtEpub -> w.ePub /\ f.fullReads /\ ~ f.corrupt
    [] OTHER -> FALSE

\* The file at position i imports on its own: it ingests and its save
\* succeeds.
importsAlone(i) == ingests(fileList[i].file, window) /\ fileList[i].saves

Listed(name) == \E k \in 1..Len(failList) : failList[k] = name

\* The call of parseFile settles as ingests says.
OutcomeAsExpected ==
  /\ pc = "resolved" => ingests(file, window)
  /\ pc = "rejected" => ~ ingests(file, window)

\* C17: a docx or epub document whose converter is not loaded is rejected
\* before anything of it is read, with the error of the missing library; it
\* is listed as failed and not saved; no book is opened, no full text
\* retained, and the store and the bookshelf hold only the files that
\* imported.
C17_MissingConverterRejects ==
  /\ \A i \in 1..Len(fileList) :
       converterMissing(fileList[i].file, window) =>
         /\ (i = cursor /\ stage = "parse") =>
              /\ pc \in {"start", "rejected"}
              /\ io = {}
              /\ data = None
              /\ pc = "rejected" => error \in {Some(ErrMammoth), Some(ErrEpub)}
         /\ i < cursor =>
              /\ Listed(fileList[i].file.name)
              /\ bookId(fileList[i].file) \notin DOMAIN db
  /\ stage # "idle" =>
       /\ book = None
       /\ fullText = None
       /\ DOMAIN db \subseteq
            {bookId(fileList[i].file) :
               i \in {j \in 1..Len(fileList) : importsAlone(j)}}
       /\ \A k \in 1..Len(library) : library[k] \in DOMAIN db

\* Reached: a.docx was rejected for the missing mammoth and b.txt after it
\* was imported.
C17_Witness ==
  /\ stage = "done"
  /\ Len(fileList) = 2
  /\ converterMissing(fileList[1].file, window)
  /\ failList = <<fileList[1].file.name>>
  /\ successCount = 1
  /\ library = <<bookId(fileList[2].file)>>

\* Nothing of the import can run any more: it is over, or the promise of
\* the call it awaits can no longer settle.
ImportAtRest == stage = "done" \/ (stage = "parse" /\ pc = "hung")

\* The import is over with every file accounted for: the files that import
\* on their own are in the store, the others are listed as failed, and
\* successCount + failList.length is the number of files.
ImportAccounted ==
  /\ stage = "done"
  /\ \A i \in 1..Len(fileList) :
       IF importsAlone(i)
       THEN bookId(fileList[i].file) \in DOMAIN db
       ELSE Listed(fileList[i].file.name)
  /\ successCount + Len(failList) = Len(fileList)

\* C18: whatever files of a batch fail, the import comes to rest only at
\* its end, with every file accounted for.
C18_SiblingsUnaffected == ImportAtRest => ImportAccounted

\* What does hold: an import that reaches its end has every file accounted
\* for.
ImportEndsAccounted == stage = "done" => ImportAccounted

\* C19: at most one file is in flight, it is the one the loop is at, and the
\* calls of parseFile start in the order of the selection, each after
\* everything before it settled.
C19_OneInFlight ==
  /\ Cardinality(inFlight) <= 1
  /\ inFlight \subseteq {cursor}
  /\ started = [k \in 1..Len(started) |-> k]
  /\ Len(started) \in {cursor - 1, cursor}
  /\ stage \in {"parse", "save"} <=> inFlight = {cursor}

\* Reached: the second file of a batch is being parsed after the first was
\* saved.
C19_Witness ==
  /\ stage = "parse"
  /\ cursor = 2
  /\ inFlight = {2}
  /\ started = <<1, 2>>
  /\ successCount = 1

(***************************************************************************)
(* Properties of the bookshelf.                                            *)
(***************************************************************************)
\* C20: the retained full text is null whenever no book is open, and with
\* a book open it is null or the decoded text of that book; it is null with
\* a book of a structured format open.
C20_FullTextOfOpenBook ==
  IF ~ book.some THEN fullText = None
  ELSE LET f == db[book.value.id].file
       IN  /\ fullText \in {None, Some(decodedText(f, window))}
           /\ extensionOf(f.name) # ExtTxt => fullText = None

(***************************************************************************)
(* Properties of the yield of PASS 1.                                      *)
(***************************************************************************)
\* The while loop of PASS 1 without its yield, run to its end from offset
\* from: each turn leaves the regex's lastIndex and the points to the next.
RECURSIVE scanWithoutYield(_, _, _)
scanWithoutYield(t, from, pts) ==
  LET match == exec(t, from)
      titleLine == Trim(match.group1)
  IN  IF ~ match.found THEN pts
      ELSE LET turn == CHOOSE st \in
                 {[lastIndex |-> match.lastIndex,
                   points |-> IF titleAccepted(titleLine)
                              THEN Append(pts, [title |-> titleLine,
                                     startIndex |-> startIndexOf(match)])
                              ELSE pts]} : TRUE
           IN  scanWithoutYield(t, turn.lastIndex, turn.points)

\* C21: the yield does not change the result.  When the scan is suspended
\* and when it goes on, whatever handlers ran meanwhile, what is left of the
\* scan gives the points a scan without yielding gives, in the same order,
\* and the call resolves with the chapters built from them.
C21_YieldKeepsResult ==
  /\ pc \in {"scan", "yield"} /\ Len(points) >= YieldEvery =>
        scanWithoutYield(text, lastIndex, points)
          = scanWithoutYield(text, 0, <<>>)
  /\ pc = "resolved" /\ IsTxt =>
        /\ points = scanWithoutYield(text, 0, <<>>)
        /\ data.value.chapters
             = buildChapters(text, scanWithoutYield(text, 0, <<>>))

\* Reached: the call resolved after more than YieldEvery points, and while it
\* was suspended a card was clicked and handleOpenFromLibrary ran up to its
\* call of parseFile.
C21_Witness ==
  /\ pc = "resolved"
  /\ Len(points) > YieldEvery
  /\ loading
  /\ now > Len(ShelfDocs) + 1

(***************************************************************************)
(* Properties of the titles.                                               *)
(***************************************************************************)
\* The chapters of Result made from points (not the leading chapter, not
\* the chapter of the whole text).
Detected ==
  {k \in 1..Len(Result) :
     Result[k].id # "chap-pre" /\ ~ (points = <<>>)}

\* The matches of chapterRegex in the text whose trimmed title is longer
\* than TitleMax, by the offset their title starts at.
OverlongStarts ==
  {startIndexOf(MatchAt(text, p)) :
     p \in {r \in 0..(Len(text) - 1) :
              /\ MatchAt(text, r).found
              /\ Len(Trim(MatchAt(text, r).group1)) > TitleMax}}

\* C22: the title of every detected chapter is trimmed and has 1 to 50
\* characters, and no chapter starts at a matching line whose trimmed title
\* is longer than 50 characters.
C22_TitlesTrimmedAndBounded ==
  TxtResolved =>
    /\ \A k \in Detected :
         /\ Trim(Result[k].title) = Result[k].title
         /\ Len(Result[k].title) \in 1..TitleMax
    /\ \A k \in Detected : Result[k].startStringIndex \notin OverlongStarts

\* Reached: the only matching line has a trimmed title of 51 characters and
\* the document resolved without a detected chapter.
C22_Witness ==
  /\ TxtResolved
  /\ OverlongStarts = {0}
  /\ Len(text) = TitleMax + 1
  /\ Detected = {}

\* C23: no title of a detected chapter contains a line break.
C23_TitleOnOneLine ==
  TxtResolved =>
    \A k \in Detected :
      \A j \in 1..Len(Result[k].title) :
        Result[k].title[j] \notin LineTerminators

(***************************************************************************)
(* Properties of the loop over the spine.                                  *)
(***************************************************************************)
IsEpub == extensionOf(file.name) = ExtEpub

\* item.load did not throw.
Loads(item) == item.doc # "error"

\* The chapters made of the items that loaded among the first n of the
\* spine, in the order of the spine.
LoadedChapters(n) ==
  LET loaded == SelectSeq(SubSeq(file.spine, 1, n), Loads)
  IN  [k \in 1..Len(loaded) |-> spineChapter(loaded[k], k - 1)]

\* C24: a spine item whose load fails is skipped.  After each turn of the
\* loop the chapters are those of the items that loaded so far, in spine
\* order; the call resolves with those of the whole spine; and once the book
\* is ready the call does not reject.
C24_FailedItemSkipped ==
  IsEpub =>
    /\ pc = "epub" => chapters = LoadedChapters(spinePos - 1)
    /\ pc = "resolved" => Result = LoadedChapters(Len(file.spine))
    /\ window.ePub /\ file.fullReads /\ ~ file.corrupt =>
         pc \notin {"rejected", "failed", "hung"}

\* Reached: the first item of the spine failed to load and the call
\* resolved with the second one as its only chapter.
C24_Witness ==
  /\ IsEpub
  /\ pc = "resolved"
  /\ Len(file.spine) = 2
  /\ ~ Loads(file.spine[1])
  /\ file.spine[2].doc = "body"
  /\ file.spine[2].html = <<"h">>
  /\ Len(Result) = 1
  /\ Result[1].content = <<"h">>

(***************************************************************************)
(* Properties of the diagnostics.                                          *)
(***************************************************************************)
\* detectEncoding resolved with 'utf-8' for want of a label: the prefix
\* could not be read, jschardet is not loaded, or it named no encoding.
SnifferFellBack ==
  /\ "slice" \in io
  /\ ~ (file.prefixReads /\ window.jschardet /\ file.detected.some)

\* A spine item was skipped.
ItemSkipped ==
  IsEpub /\ \E k \in 1..(spinePos - 1) : ~ Loads(file.spine[k])

\* A structured document resolved without any content.
NoUsableContent ==
  /\ pc = "resolved"
  /\ ~ IsTxt
  /\ \A k \in 1..Len(Result) : Result[k].content = <<>>

\* C25: whenever a fallback was taken, a diagnostic was recorded: a message
\* on the console, or a field of the result besides title, chapters and
\* fullText.
C25_FallbacksDiagnosed ==
  SnifferFellBack \/ ItemSkipped \/ NoUsableContent =>
    \/ consoleMessages # {}
    \/ pc = "resolved" /\ DOMAIN data.value # {"title", "chapters", "fullText"}

(***************************************************************************)
(* Properties of the index of the chapter shown.                           *)
(***************************************************************************)
\* C26: whenever a book is open, currentChapterIndex names one of its
\* chapters.
C26_IndexInRange ==
  book.some =>
    /\ 0 <= currentChapterIndex
    /\ currentChapterIndex < Len(book.value.chapters)

(***************************************************************************)
(* Properties of the settling of parseFile.                                *)
(***************************************************************************)
\* C27: every call of parseFile settles in the end: it resolves or rejects
\* (and the caller then takes the outcome).
C27_ParseFileSettles == <>(pc \in {"resolved", "rejected", "open", "failed"})

\* A synthetic chapter of a plain-text book is on display.
SyntheticShown ==
  /\ pc = "open"
  /\ IsTxt
  /\ fullText.some
  /\ fullText.value # <<>>
  /\ activeChapterData.kind = "chapter"
  /\ activeChapterData.title \in {TitleStart, TitleFullText}

\* C28: the content shown for a synthetic chapter (titled 开始 or 全文, a title
\* that is no line of the text) has one paragraph for every line of the
\* chapter's slice of the full text: no line is dropped.
C28_SyntheticKeepsLines ==
  SyntheticShown =>
    LET ch == book.value.chapters[currentChapterIndex + 1]
    IN  activeChapterData.content =
          toParagraphs(Substring(fullText.value, ch.startStringIndex,
                                 ch.endStringIndex))

\* C29: once a plain-text document is open, the display of the active chapter
\* stops being the loading placeholder in the end: it shows content made
\* from the full text.
C29_ContentShownInTheEnd ==
  (pc = "open" /\ IsTxt)
    ~> (/\ activeChapterData.kind = "chapter"
        /\ activeChapterData.content # LoadingContent)

\* Two files with the same name and the same bytes: they differ at most in
\* whether the reads of this call succeed.
SameDocument(f, g) ==
  [f EXCEPT !.prefixReads = TRUE, !.fullReads = TRUE]
    = [g EXCEPT !.prefixReads = TRUE, !.fullReads = TRUE]

\* The calls of parseFile on the document of the running call that resolve.
OtherCalls ==
  {c \in {[file |-> f, window |-> w] :
            f \in {g \in SniffedFiles \cup ConvertedFiles :
                     SameDocument(g, file)},
            w \in Windows} :
     settles(c.file, c.window) = "resolved"}

\* C30: parseFile is deterministic in the document: every call on the same
\* name and bytes that resolves gives the chapter sequence this call gives.
C30_SameDocumentSameChapters ==
  (pc = "resolved") =>
    \A c \in OtherCalls :
      parseFileResult(c.file, c.window).value.chapters = data.value.chapters

====
